---- MODULE Spec2Model ----
(***************************************************************************)
(* A model of the address checker: the ray-casting containment test and    *)
(* the neighbourhood lookup of search2.py, and the neighbourhood store of  *)
(* simple_checker.py.                                                      *)
(*                                                                         *)
(* Coordinates are Python floats.  A float is modelled as IEEE-754         *)
(* binary64 in its normal range (no infinity, NaN, signed zero, overflow   *)
(* or underflow): a sign, an odd integer mantissa of at most Prec bits and *)
(* a binary exponent, every arithmetic result rounded to nearest, ties to  *)
(* even.  Mantissas are sequences of limbs, least significant first,       *)
(* because they do not fit the model checker's integers.                   *)
(***************************************************************************)
EXTENDS Integers, Sequences, FiniteSets, TLC

----------------------------------------------------------------------------
(* Natural numbers as sequences of W-bit limbs, least significant first;   *)
(* the canonical form has no leading (high) zero limb, so zero is << >>.   *)

W == 15

Base == 2 ^ W

RECURSIVE Trim(_)
Trim(b) ==
    IF b = << >> THEN << >>
    ELSE IF b[Len(b)] = 0 THEN Trim(SubSeq(b, 1, Len(b) - 1))
    ELSE b

Zeros(k) == [i \in 1..k |-> 0]

RECURSIVE BCmpAt(_, _, _)
BCmpAt(a, b, i) ==
    IF i = 0 THEN 0
    ELSE IF a[i] # b[i] THEN (IF a[i] < b[i] THEN -1 ELSE 1)
    ELSE BCmpAt(a, b, i - 1)

BCmp(a, b) ==
    IF Len(a) # Len(b) THEN (IF Len(a) < Len(b) THEN -1 ELSE 1)
    ELSE BCmpAt(a, b, Len(a))

RECURSIVE BAddC(_, _, _)
BAddC(a, b, c) ==
    IF a = << >> /\ b = << >> THEN (IF c = 0 THEN << >> ELSE <<c>>)
    ELSE LET x == IF a = << >> THEN 0 ELSE Head(a)
             y == IF b = << >> THEN 0 ELSE Head(b)
             s == x + y + c
         IN  <<s % Base>> \o BAddC(IF a = << >> THEN << >> ELSE Tail(a),
                                   IF b = << >> THEN << >> ELSE Tail(b),
                                   s \div Base)

BAdd(a, b) == BAddC(a, b, 0)

RECURSIVE BSubB(_, _, _)
BSubB(a, b, br) ==
    IF a = << >> THEN << >>
    ELSE LET y == IF b = << >> THEN 0 ELSE Head(b)
             d == Head(a) - y - br
         IN  <<d % Base>> \o BSubB(Tail(a),
                                   IF b = << >> THEN << >> ELSE Tail(b),
                                   IF d < 0 THEN 1 ELSE 0)

\* a - b for a >= b
BSub(a, b) == Trim(BSubB(a, b, 0))

\* a * d + c for one limb d and a carry c
RECURSIVE BMulLimb(_, _, _)
BMulLimb(a, d, c) ==
    IF a = << >> THEN (IF c = 0 THEN << >> ELSE <<c>>)
    ELSE LET p == Head(a) * d + c
         IN  <<p % Base>> \o BMulLimb(Tail(a), d, p \div Base)

RECURSIVE BMul(_, _)
BMul(a, b) ==
    IF a = << >> \/ b = << >> THEN << >>
    ELSE LET rest == BMul(a, Tail(b))
         IN  Trim(BAdd(BMulLimb(a, Head(b), 0),
                       IF rest = << >> THEN << >> ELSE <<0>> \o rest))

\* the number of bits of one limb, and of a number
LimbBits(x) == IF x = 0 THEN 0 ELSE CHOOSE k \in 1..W : 2 ^ (k - 1) <= x /\ x < 2 ^ k

BitLen(a) == IF a = << >> THEN 0 ELSE W * (Len(a) - 1) + LimbBits(a[Len(a)])

\* bit i of a, bit 1 the least significant
Bit(a, i) ==
    LET l == (i - 1) \div W + 1
    IN  IF l > Len(a) THEN 0 ELSE (a[l] \div 2 ^ ((i - 1) % W)) % 2

\* a * 2^k
BShl(a, k) ==
    IF a = << >> THEN << >>
    ELSE Zeros(k \div W) \o BMulLimb(a, 2 ^ (k % W), 0)

\* floor(a / 2^k)
BShr(a, k) ==
    LET ls  == k \div W
        bs  == k % W
        hi  == IF ls >= Len(a) THEN << >> ELSE SubSeq(a, ls + 1, Len(a))
    IN  Trim([i \in 1..Len(hi) |->
                 hi[i] \div 2 ^ bs
                 + (IF i < Len(hi) THEN (hi[i + 1] % 2 ^ bs) * 2 ^ (W - bs) ELSE 0)])

\* long division, one bit of a at a time from bit i down to bit lo
RECURSIVE BDivBits(_, _, _, _, _)
BDivBits(a, b, i, lo, st) ==
    IF i < lo THEN st
    ELSE LET r2 == BAddC(st.r, st.r, Bit(a, i))
         IN  IF BCmp(r2, b) >= 0
             THEN BDivBits(a, b, i - 1, lo, [q |-> BAddC(st.q, st.q, 1), r |-> BSub(r2, b)])
             ELSE BDivBits(a, b, i - 1, lo, [q |-> BAddC(st.q, st.q, 0), r |-> r2])

\* ... W bits to a block
RECURSIVE BDivBlocks(_, _, _, _)
BDivBlocks(a, b, i, st) ==
    IF i = 0 THEN st
    ELSE LET lo == IF i > W THEN i - W + 1 ELSE 1
         IN  BDivBlocks(a, b, lo - 1, BDivBits(a, b, i, lo, st))

\* division by a one-limb d, one limb of a at a time from limb i down
RECURSIVE BDivShort(_, _, _, _, _)
BDivShort(a, d, i, q, r) ==
    IF i = 0 THEN [q |-> Trim(q), r |-> IF r = 0 THEN << >> ELSE <<r>>]
    ELSE LET cur == r * Base + a[i]
         IN  BDivShort(a, d, i - 1, <<cur \div d>> \o q, cur % d)

\* quotient and remainder of a by b, b > 0
BDivMod(a, b) ==
    IF Len(b) = 1 THEN BDivShort(a, b[1], Len(a), << >>, 0)
    ELSE BDivBlocks(a, b, BitLen(a), [q |-> << >>, r |-> << >>])

RECURSIVE BFromNat(_)
BFromNat(n) == IF n = 0 THEN << >> ELSE <<n % Base>> \o BFromNat(n \div Base)

----------------------------------------------------------------------------
(* Python values held in a coordinate field: a float, or (the dataclass    *)
(* checks nothing) a string.  A float is (-1)^sg * m * 2^e, m odd or zero. *)

Prec == 53

FZero == [kind |-> "float", sg |-> 0, m |-> << >>, e |-> 0]

Str == [kind |-> "str", sg |-> 0, m |-> << >>, e |-> 0]

IsFloat(v) == v.kind = "float"

\* the number of low zero bits of m > 0
LowZeros(m) == CHOOSE k \in 0..BitLen(m) : Bit(m, k + 1) = 1 /\ \A i \in 1..k : Bit(m, i) = 0

Norm(sg, m, e) ==
    IF m = << >> THEN FZero
    ELSE LET tz == LowZeros(m)
         IN  [kind |-> "float", sg |-> sg, m |-> BShr(m, tz), e |-> e + tz]

\* round m * 2^e (plus, when sticky, a fraction of the last bit) to Prec bits,
\* to nearest, ties to even
RoundF(sg, m, e, sticky) ==
    IF BitLen(m) <= Prec THEN Norm(sg, m, e)
    ELSE LET k   == BitLen(m) - Prec
             top == BShr(m, k)
             st  == sticky \/ \E i \in 1..(k - 1) : Bit(m, i) = 1
             up  == Bit(m, k) = 1 /\ (st \/ Bit(top, 1) = 1)
         IN  Norm(sg, IF up THEN BAdd(top, <<1>>) ELSE top, e + k)

FromInt(n) == Norm(IF n < 0 THEN 1 ELSE 0, BFromNat(IF n < 0 THEN -n ELSE n), 0)

FNeg(a) == IF a.m = << >> THEN a ELSE [a EXCEPT !.sg = 1 - a.sg]

Min(x, y) == IF x < y THEN x ELSE y

\* -1, 0, 1 as a < b, a = b, a > b
FCmp(a, b) ==
    LET emin == Min(a.e, b.e)
        A    == BShl(a.m, a.e - emin)
        B    == BShl(b.m, b.e - emin)
        mag  == BCmp(A, B)
    IN  IF a.m = << >> /\ b.m = << >> THEN 0
        ELSE IF a.m = << >> THEN (IF b.sg = 1 THEN 1 ELSE -1)
        ELSE IF b.m = << >> THEN (IF a.sg = 1 THEN -1 ELSE 1)
        ELSE IF a.sg # b.sg THEN (IF a.sg = 1 THEN -1 ELSE 1)
        ELSE IF a.sg = 1 THEN -mag ELSE mag

FAdd(a, b) ==
    LET emin == Min(a.e, b.e)
        A    == BShl(a.m, a.e - emin)
        B    == BShl(b.m, b.e - emin)
        mag  == BCmp(A, B)
    IN  IF a.m = << >> THEN b
        ELSE IF b.m = << >> THEN a
        ELSE IF a.sg = b.sg THEN RoundF(a.sg, BAdd(A, B), emin, FALSE)
        ELSE IF mag = 0 THEN FZero
        ELSE IF mag > 0 THEN RoundF(a.sg, BSub(A, B), emin, FALSE)
        ELSE RoundF(b.sg, BSub(B, A), emin, FALSE)

FSub(a, b) == FAdd(a, FNeg(b))

FMul(a, b) ==
    RoundF((a.sg + b.sg) % 2, BMul(a.m, b.m), a.e + b.e, FALSE)

\* a / b for b # 0: enough quotient bits for the rounding bit, the rest sticky
FDiv(a, b) ==
    IF a.m = << >> THEN FZero
    ELSE LET need == BitLen(b.m) + Prec + 2 - BitLen(a.m)
             s    == IF need > 0 THEN need ELSE 0
             dm   == BDivMod(BShl(a.m, s), b.m)
         IN  RoundF((a.sg + b.sg) % 2, dm.q, a.e - b.e - s, dm.r # << >>)

----------------------------------------------------------------------------
(* search2.py                                                              *)

VARIABLES
    point,          \* the Coordinate a caller passes
    polygon,        \* the vertex list passed to is_point_in_polygon
    inside,         \* what is_point_in_polygon returned or raised
    neighborhoods,  \* the list passed to the lookup
    op,             \* the name the caller looked up in the module
    found,          \* what the lookup returned or raised
    args,           \* the two values given to the Coordinate constructor
    pc,             \* the caller's position
    file,           \* neighborhoods.json
    name,           \* create_neighborhood's name
    polygon_coords, \* create_neighborhood's polygon_coords
    last            \* the last operation started, the exception it raised and
                    \* the message it ended with ("" while it runs)

vars == <<point, polygon, inside, neighborhoods, op, found, args, pc, file,
          name, polygon_coords, last>>

\* the dataclass constructor of lines 4-7: it stores the two values as given
Coordinate(lat, lng) == [lat |-> lat, lng |-> lng]

\* the dataclass of lines 9-12
Neighborhood(nm, coords) == [name |-> nm, coordinates |-> coords]

None == "None"

\* a call's outcome: the value returned, or the exception raised
Return(v) == [exc |-> "", val |-> v]

RaiseBool(exc) == [exc |-> exc, val |-> FALSE]

RaiseName(exc) == [exc |-> exc, val |-> None]

RaiseList(exc) == [exc |-> exc, val |-> << >>]

\* a > b on two floats; a str compared with itself is not greater
Gt(a, b) == IF IsFloat(a) /\ IsFloat(b) THEN FCmp(a, b) > 0 ELSE FALSE

\* (xj - xi) * (point.lat - yi) / (yj - yi) + xi
x_intersect(pt, vi, vj) ==
    FAdd(FDiv(FMul(FSub(vj.lng, vi.lng), FSub(pt.lat, vi.lat)),
              FSub(vj.lat, vi.lat)), vi.lng)

\* what evaluating the arithmetic and the comparison of line 38 does: a str
\* operand raises TypeError, a zero divisor ZeroDivisionError
crossing_test(pt, vi, vj) ==
    IF ~IsFloat(vj.lng) \/ ~IsFloat(vi.lng) \/ ~IsFloat(pt.lat)
       \/ ~IsFloat(vi.lat) \/ ~IsFloat(vj.lat)
    THEN RaiseBool("TypeError")
    ELSE IF FSub(vj.lat, vi.lat) = FZero THEN RaiseBool("ZeroDivisionError")
    ELSE IF ~IsFloat(pt.lng) THEN RaiseBool("TypeError")
    ELSE Return(FCmp(pt.lng, x_intersect(pt, vi, vj)) < 0)

\* both operands of `and` evaluated
intersect_eager(pt, vi, vj) ==
    IF vi.lat.kind # pt.lat.kind \/ vj.lat.kind # pt.lat.kind
    THEN RaiseBool("TypeError")
    ELSE LET c == crossing_test(pt, vi, vj)
         IN  IF c.exc # "" THEN c
             ELSE Return(Gt(vi.lat, pt.lat) # Gt(vj.lat, pt.lat) /\ c.val)

\* yj >= point.lat in place of yj > point.lat
intersect_ge(pt, vi, vj) ==
    IF vi.lat.kind # pt.lat.kind \/ vj.lat.kind # pt.lat.kind
    THEN RaiseBool("TypeError")
    ELSE IF Gt(vi.lat, pt.lat) = (IsFloat(pt.lat) /\ FCmp(vj.lat, pt.lat) >= 0)
    THEN Return(FALSE)
    ELSE crossing_test(pt, vi, vj)

\* (yi > point.lat) and not (yj > point.lat) in place of the inequality
intersect_one_way(pt, vi, vj) ==
    IF vi.lat.kind # pt.lat.kind \/ vj.lat.kind # pt.lat.kind
    THEN RaiseBool("TypeError")
    ELSE IF ~(Gt(vi.lat, pt.lat) /\ ~Gt(vj.lat, pt.lat)) THEN Return(FALSE)
    ELSE crossing_test(pt, vi, vj)

\* the expression of lines 37-38 for the edge from vj = (xj, yj) to
\* vi = (xi, yi).  A float and a str do not compare (TypeError); Python's
\* `and` evaluates its right operand only when the left one is true.
intersect(pt, vi, vj) ==
    IF vi.lat.kind # pt.lat.kind \/ vj.lat.kind # pt.lat.kind
    THEN RaiseBool("TypeError")
    ELSE IF Gt(vi.lat, pt.lat) = Gt(vj.lat, pt.lat) THEN Return(FALSE)
    ELSE crossing_test(pt, vi, vj)

\* `inside = True` in place of `inside = not inside`
RECURSIVE ray_cast_set(_, _, _, _, _)
ray_cast_set(pt, poly, i, j, ins) ==
    IF i > Len(poly) THEN Return(ins)
    ELSE LET c == intersect(pt, poly[i], poly[j])
         IN  IF c.exc # "" THEN c
             ELSE ray_cast_set(pt, poly, i + 1, i, c.val \/ ins)

\* the loop of lines 31-42 from index i on (1-based), j the index before it
RECURSIVE ray_cast(_, _, _, _, _)
ray_cast(pt, poly, i, j, ins) ==
    IF i > Len(poly) THEN Return(ins)
    ELSE LET c == intersect(pt, poly[i], poly[j])
         IN  IF c.exc # "" THEN c
             ELSE ray_cast(pt, poly, i + 1, i, IF c.val THEN ~ins ELSE ins)

\* without the guard of lines 25-26
is_point_in_polygon_unguarded(pt, poly) ==
    IF Len(poly) = 0 THEN Return(FALSE)
    ELSE ray_cast(pt, poly, 1, Len(poly), FALSE)

\* without the edge from the last vertex back to the first
is_point_in_polygon_open(pt, poly) ==
    IF Len(poly) < 3 THEN Return(FALSE)
    ELSE ray_cast(pt, poly, 2, 1, FALSE)

is_point_in_polygon(pt, poly) ==
    IF Len(poly) < 3 THEN Return(FALSE)
    ELSE ray_cast(pt, poly, 1, Len(poly), FALSE)

\* the loop of lines 57-59 from index k on
RECURSIVE find_from(_, _, _)
find_from(pt, nbs, k) ==
    IF k > Len(nbs) THEN Return(None)
    ELSE LET c == is_point_in_polygon(pt, nbs[k].coordinates)
         IN  IF c.exc # "" THEN RaiseName(c.exc)
             ELSE IF c.val THEN Return(nbs[k].name)
             ELSE find_from(pt, nbs, k + 1)

\* the list walked from its last element: the last match in place of the
\* first
find_neighborhood_last(pt, nbs) ==
    find_from(pt, [i \in 1..Len(nbs) |-> nbs[Len(nbs) + 1 - i]], 1)

find_neighborhood(pt, nbs) == find_from(pt, nbs, 1)

\* the comprehension of lines 67-71
RECURSIVE find_all_neighborhoods(_, _)
find_all_neighborhoods(pt, nbs) ==
    IF nbs = << >> THEN Return(<< >>)
    ELSE LET c    == is_point_in_polygon(pt, Head(nbs).coordinates)
             rest == find_all_neighborhoods(pt, Tail(nbs))
         IN  IF c.exc # "" THEN RaiseList(c.exc)
             ELSE IF rest.exc # "" THEN rest
             ELSE Return((IF c.val THEN <<Head(nbs).name>> ELSE << >>) \o rest.val)

\* the names the module binds: the two classes and the two functions defined
\* at its top level.  The def of line 63 is indented into find_neighborhood
\* after its last return, so it is never executed and binds no name.
ModuleNames == {"Coordinate", "Neighborhood", "is_point_in_polygon", "find_neighborhood"}

\* every k-th cyclic rotation, the reversal and the explicitly closed ring
Rotate(poly, k) ==
    [i \in 1..Len(poly) |-> poly[((i - 1 + k) % Len(poly)) + 1]]

Reverse(poly) == [i \in 1..Len(poly) |-> poly[Len(poly) + 1 - i]]

Close(poly) == Append(poly, poly[1])

----------------------------------------------------------------------------
(* The callers of search2.py.                                              *)

MaxVertices == 4

MaxNeighborhoods == 2

OneThird == FDiv(FromInt(1), FromInt(3))

\* the vertices the vertex lists are drawn from: the corners of a rectangle
\* and a point east of it
Vertices ==
    {Coordinate(FromInt(lat), FromInt(lng)) : lat \in {0, 3}, lng \in {0, 1}}
    \cup {Coordinate(FromInt(3), FromInt(5))}

PointLats == {FromInt(0), FromInt(1), FromInt(4)}

PointLngs == {FromInt(-1), OneThird, FromInt(2)}

Points == {Coordinate(lat, lng) : lat \in PointLats, lng \in PointLngs}

\* the four corners of [s, n] x [w, e] in ring order, from corner k, in
\* either direction
Rectangle(s, n, w, e, k, rev) ==
    LET ring == <<Coordinate(s, w), Coordinate(s, e), Coordinate(n, e), Coordinate(n, w)>>
        rot  == Rotate(ring, k)
    IN  IF rev THEN Reverse(rot) ELSE rot

RectLngs == {FromInt(0), FromInt(1), FromInt(5)}

Rectangles ==
    {Rectangle(FromInt(0), FromInt(3), w, e, k, rev) :
        w \in RectLngs, e \in {x \in RectLngs : FCmp(x, FromInt(0)) > 0},
        k \in 0..3, rev \in BOOLEAN}

Polygons ==
    UNION {[1..n -> Vertices] : n \in 0..MaxVertices}
    \cup {r \in Rectangles : FCmp(r[1].lng, r[3].lng) # 0}

NoStore == [exists |-> FALSE, neighborhoods |-> << >>]

NoCall == [op |-> "", exc |-> "", said |-> ""]

\* the parts of the state a specification does not use
NoLookup == neighborhoods = << >> /\ op = "" /\ found = Return(None)

NoConstruct == args = <<FZero, FZero>>

NoFile == file = NoStore /\ name = "" /\ polygon_coords = << >>

Init ==
    /\ point \in Points
    /\ polygon \in Polygons
    /\ inside = Return(FALSE)
    /\ pc = "call"
    /\ last = NoCall
    /\ NoLookup /\ NoConstruct /\ NoFile

\* a caller invokes is_point_in_polygon(point, polygon)
Contains ==
    /\ pc = "call"
    /\ inside' = is_point_in_polygon(point, polygon)
    /\ pc' = "returned"
    /\ last' = [op |-> "is_point_in_polygon", exc |-> inside'.exc, said |-> ""]
    /\ UNCHANGED <<point, polygon, neighborhoods, op, found, args, file,
                   name, polygon_coords>>

\* a caller invokes find_neighborhood on the list of the one neighbourhood
\* bounded by the polygon
LookupOne ==
    /\ pc = "call"
    /\ neighborhoods' = <<Neighborhood("A", polygon)>>
    /\ op' = "find_neighborhood"
    /\ found' = find_neighborhood(point, neighborhoods')
    /\ pc' = "looked up"
    /\ last' = [op |-> "find_neighborhood", exc |-> found'.exc, said |-> ""]
    /\ UNCHANGED <<point, polygon, inside, args, file, name, polygon_coords>>

Next == Contains \/ LookupOne

Spec == Init /\ [][Next]_vars

----------------------------------------------------------------------------
(* A caller of the lookup: a point and an ordered list of neighbourhoods.   *)

Names == {"A", "B"}

West == Rectangle(FromInt(0), FromInt(3), FromInt(0), FromInt(1), 0, FALSE)

Wide == Rectangle(FromInt(0), FromInt(3), FromInt(0), FromInt(5), 1, TRUE)

East == Rectangle(FromInt(0), FromInt(3), FromInt(1), FromInt(5), 2, FALSE)

Segment == <<Coordinate(FromInt(0), FromInt(0)), Coordinate(FromInt(3), FromInt(1))>>

LookupPolygons == {West, Wide, East, Segment}

LookupPoints ==
    {Coordinate(FromInt(1), OneThird), Coordinate(FromInt(1), FromInt(2)),
     Coordinate(FromInt(4), FromInt(2)), Coordinate(FromInt(1), FromInt(-1))}

NeighborhoodLists ==
    UNION {[1..n -> {Neighborhood(nm, poly) : nm \in Names, poly \in LookupPolygons}] :
              n \in 0..MaxNeighborhoods}

\* the functions a caller may ask the module for
Wanted == {"find_neighborhood", "find_all_neighborhoods"}

InitLookup ==
    /\ point \in LookupPoints
    /\ neighborhoods \in NeighborhoodLists
    /\ op = ""
    /\ found = Return(None)
    /\ pc = "call"
    /\ last = NoCall
    /\ polygon = << >> /\ inside = Return(FALSE)
    /\ NoConstruct /\ NoFile

\* a caller takes the attribute fn of the module and calls it with
\* (point, neighborhoods); a name the module does not bind raises
\* AttributeError
Lookup(fn) ==
    /\ pc = "call"
    /\ op' = fn
    /\ found' = IF fn \notin ModuleNames THEN RaiseList("AttributeError")
                ELSE IF fn = "find_neighborhood" THEN find_neighborhood(point, neighborhoods)
                ELSE find_all_neighborhoods(point, neighborhoods)
    /\ pc' = "looked up"
    /\ last' = [op |-> fn, exc |-> found'.exc, said |-> ""]
    /\ UNCHANGED <<point, polygon, inside, neighborhoods, args, file,
                   name, polygon_coords>>

NextLookup == \E fn \in Wanted : Lookup(fn)

SpecLookup == InitLookup /\ [][NextLookup]_vars

----------------------------------------------------------------------------
(* A caller that builds the point from two values of its own.              *)

RawValues == {FromInt(1), OneThird, FromInt(4), Str}

InitConstruct ==
    /\ args \in RawValues \X RawValues
    /\ point = Coordinate(FZero, FZero)
    /\ polygon \in LookupPolygons
    /\ inside = Return(FALSE)
    /\ pc = "construct"
    /\ last = NoCall
    /\ NoLookup /\ NoFile

\* point = Coordinate(args[1], args[2])
Construct ==
    /\ pc = "construct"
    /\ point' = Coordinate(args[1], args[2])
    /\ pc' = "call"
    /\ last' = [op |-> "Coordinate", exc |-> "", said |-> ""]
    /\ UNCHANGED <<polygon, inside, neighborhoods, op, found, args, file,
                   name, polygon_coords>>

NextConstruct == Construct \/ Contains \/ LookupOne

SpecConstruct == InitConstruct /\ [][NextConstruct]_vars

----------------------------------------------------------------------------
(* simple_checker.py: the menu, create_neighborhood and delete_neighborhood. *)
(* A line the user types is the sequence of its comma-separated fields.      *)

MinPoints == 3

MaxPoints == 3

MaxStored == 3

\* str.lower() and str.strip() on the texts a user types
lower(s) == IF s = "DONE" THEN "done" ELSE IF s = "CANCEL" THEN "cancel" ELSE s

strip(s) == IF s = " A " THEN "A" ELSE s

\* float(s): the texts it converts; any other text raises ValueError
IsNumeral(s) == s \in {"0", "1", "3"}

Numerals == [s \in {"0", "1", "3"} |-> FromInt(IF s = "0" THEN 0 ELSE IF s = "1" THEN 1 ELSE 3)]

float(s) == Numerals[s]

\* int(s): the texts it converts; any other text raises ValueError
IntRange == (0 - 1)..(MaxStored + 1)

\* str(n) for the integers n of the range
IntTexts == [n \in IntRange |-> ToString(n)]

IsInteger(s) == \E n \in IntRange : IntTexts[n] = s

int(s) == CHOOSE n \in IntRange : IntTexts[n] = s

TypedNames == {"A", " A "}

TypedLines ==
    {<<"done">>, <<"DONE">>, <<"x">>, <<"3">>, <<"0", "0">>, <<"3", "1">>,
     <<"3", "x">>, <<"0", "0", "1">>}

TypedChoices == {IntTexts[n] : n \in IntRange} \cup {"cancel", "CANCEL", "x"}

\* lines 29-34: lat, lng = map(float, user_input.split(',')) succeeds
ParsesAsPair(line) == Len(line) = 2 /\ IsNumeral(line[1]) /\ IsNumeral(line[2])

\* line 24: 'done' is accepted
enough_points(coords) == Len(coords) >= MinPoints

\* lines 37-38
close_polygon(coords) ==
    IF coords[1] # coords[Len(coords)] THEN Append(coords, coords[1]) ELSE coords

\* the records after idx moved in front of those before it
pop_reordering(list, idx) == SubSeq(list, idx + 2, Len(list)) \o SubSeq(list, 1, idx)

\* list.pop(idx) for the 0-based idx
pop(list, idx) == SubSeq(list, 1, idx) \o SubSeq(list, idx + 2, Len(list))

InitStore ==
    /\ file \in {NoStore, [exists |-> TRUE, neighborhoods |-> << >>]}
    /\ name = ""
    /\ polygon_coords = << >>
    /\ pc = "menu"
    /\ last = NoCall
    /\ point = Coordinate(FZero, FZero)
    /\ polygon = << >> /\ inside = Return(FALSE)
    /\ NoLookup /\ NoConstruct

\* main_menu's choice "1" and line 15 of create_neighborhood
CreateStart(typed) ==
    /\ pc = "menu"
    /\ Len(file.neighborhoods) < MaxStored
    /\ name' = strip(typed)
    /\ polygon_coords' = << >>
    /\ pc' = "create"
    /\ last' = [op |-> "create_neighborhood", exc |-> "", said |-> ""]
    /\ UNCHANGED <<point, polygon, inside, neighborhoods, op, found, args, file>>

\* one turn of the loop of lines 21-34 and, once 'done' is accepted, the
\* rest of create_neighborhood
CreateLine(line) ==
    /\ pc = "create"
    /\ IF Len(line) = 1 /\ lower(line[1]) = "done"
       THEN IF ~enough_points(polygon_coords)
            THEN UNCHANGED <<file, name, polygon_coords, pc, last>>
            ELSE /\ file' = [exists |-> TRUE,
                             neighborhoods |->
                                 Append(file.neighborhoods,
                                        [name |-> name,
                                         coordinates |-> close_polygon(polygon_coords)])]
                 /\ name' = ""
                 /\ polygon_coords' = << >>
                 /\ pc' = "menu"
                 /\ last' = [op |-> "create_neighborhood", exc |-> "", said |-> "saved"]
       ELSE IF ParsesAsPair(line)
            THEN /\ Len(polygon_coords) < MaxPoints
                 /\ polygon_coords' = Append(polygon_coords, <<float(line[1]), float(line[2])>>)
                 /\ UNCHANGED <<file, name, pc, last>>
            ELSE UNCHANGED <<file, name, polygon_coords, pc, last>>
    /\ UNCHANGED <<point, polygon, inside, neighborhoods, op, found, args>>

\* main_menu's choice "4" and lines 65-80 of delete_neighborhood
DeleteStart ==
    /\ pc = "menu"
    /\ IF ~file.exists
       THEN /\ pc' = "menu"
            /\ last' = [op |-> "delete_neighborhood", exc |-> "",
                        said |-> "No saved neighborhoods to delete!"]
       ELSE IF file.neighborhoods = << >>
       THEN /\ pc' = "menu"
            /\ last' = [op |-> "delete_neighborhood", exc |-> "",
                        said |-> "No neighborhoods to delete!"]
       ELSE /\ pc' = "delete"
            /\ last' = [op |-> "delete_neighborhood", exc |-> "", said |-> ""]
    /\ UNCHANGED <<point, polygon, inside, neighborhoods, op, found, args, file,
                   name, polygon_coords>>

\* one turn of the loop of lines 83-108
DeleteChoice(choice) ==
    /\ pc = "delete"
    /\ IF lower(choice) = "cancel"
       THEN /\ pc' = "menu"
            /\ last' = [op |-> "delete_neighborhood", exc |-> "",
                        said |-> "Deletion cancelled."]
            /\ UNCHANGED file
       ELSE IF IsInteger(choice) /\ 0 <= int(choice) - 1
               /\ int(choice) - 1 < Len(file.neighborhoods)
       THEN /\ file' = [file EXCEPT !.neighborhoods = pop(@, int(choice) - 1)]
            /\ pc' = "menu"
            /\ last' = [op |-> "delete_neighborhood", exc |-> "", said |-> "deleted"]
       ELSE UNCHANGED <<file, pc, last>>
    /\ UNCHANGED <<point, polygon, inside, neighborhoods, op, found, args,
                   name, polygon_coords>>

NextStore ==
    \/ \E typed \in TypedNames : CreateStart(typed)
    \/ \E line \in TypedLines : CreateLine(line)
    \/ DeleteStart
    \/ \E choice \in TypedChoices : DeleteChoice(choice)

SpecStore == InitStore /\ [][NextStore]_vars

----------------------------------------------------------------------------
(* The claims about is_point_in_polygon, under Spec.                       *)

\* the vertex before vertex i in the ring
Before(poly, i) == IF i = 1 THEN Len(poly) ELSE i - 1

\* the edge into vertex i has its ends on opposite sides of the point's
\* latitude: the left operand of line 37
Straddles(pt, poly, i) ==
    Gt(poly[i].lat, pt.lat) # Gt(poly[Before(poly, i)].lat, pt.lat)

\* C1: a polygon with 0, 1 or 2 vertices contains no point, and the call
\* raises nothing.
DegenerateContainsNothing ==
    (pc = "returned" /\ Len(polygon) < 3) => inside = Return(FALSE)

\* a two-vertex polygon and a point at the latitude where its segment runs
DegenerateWitness ==
    /\ pc = "returned"
    /\ Len(polygon) = 2
    /\ Straddles(point, polygon, 1)
    /\ inside = Return(FALSE)

\* C4: the result is the same for every cyclic rotation of the vertex list.
RotationInvariant ==
    pc = "returned" =>
        \A k \in 1..(Len(polygon) - 1) :
            is_point_in_polygon(point, Rotate(polygon, k)) = inside

\* a point inside a polygon whose rotations are different lists
RotationWitness ==
    /\ pc = "returned"
    /\ Len(polygon) >= 3
    /\ Rotate(polygon, 1) # polygon
    /\ inside = Return(TRUE)

\* C5 as stated: for a vertex list of any length, the result is the same for
\* the list and for the list with its first vertex appended.
ClosedRingInvariant ==
    (pc = "returned" /\ Len(polygon) > 0) =>
        is_point_in_polygon(point, Close(polygon)) = inside

\* C5 as amended: the same, for a vertex list of one vertex or of three or
\* more.
ClosedRingInvariantFromThree ==
    (pc = "returned" /\ Len(polygon) > 0 /\ Len(polygon) # 2) =>
        is_point_in_polygon(point, Close(polygon)) = inside

\* a point inside an open ring whose closing edge the point's latitude
\* crosses
ClosedRingWitness ==
    /\ pc = "returned"
    /\ Len(polygon) >= 3
    /\ polygon[1] # polygon[Len(polygon)]
    /\ Straddles(point, polygon, 1)
    /\ inside = Return(TRUE)

\* the comparison of line 38 comes out the same with vi and vj exchanged, on
\* every edge it is evaluated for
SameEitherWay(pt, poly) ==
    \A i \in 1..Len(poly) :
        Straddles(pt, poly, i) =>
            (FCmp(pt.lng, x_intersect(pt, poly[i], poly[Before(poly, i)])) < 0)
            = (FCmp(pt.lng, x_intersect(pt, poly[Before(poly, i)], poly[i])) < 0)

\* C6 as stated: the result is the same for the reversed vertex list.
ReversalInvariant ==
    pc = "returned" => is_point_in_polygon(point, Reverse(polygon)) = inside

\* C6 as amended: the result is the same for the reversed vertex list when
\* no straddling edge has the point's longitude between the two rounded
\* values of its intersection longitude.
ReversalInvariantOffEdges ==
    (pc = "returned" /\ SameEitherWay(point, polygon)) =>
        is_point_in_polygon(point, Reverse(polygon)) = inside

\* a point inside a polygon that is not its own reversal, at a latitude two
\* of its edges straddle
ReversalWitness ==
    /\ pc = "returned"
    /\ Len(polygon) >= 3
    /\ Reverse(polygon) # polygon
    /\ SameEitherWay(point, polygon)
    /\ \E i \in 1..Len(polygon) : Straddles(point, polygon, i)
    /\ inside = Return(TRUE)

\* the four corners of an axis-aligned rectangle in ring order
IsRectangle(poly) ==
    /\ Len(poly) = 4
    /\ poly[1].lat # poly[3].lat
    /\ poly[1].lng # poly[3].lng
    /\ \/ /\ poly[2].lat = poly[1].lat /\ poly[2].lng = poly[3].lng
          /\ poly[4].lat = poly[3].lat /\ poly[4].lng = poly[1].lng
       \/ /\ poly[2].lat = poly[3].lat /\ poly[2].lng = poly[1].lng
          /\ poly[4].lat = poly[1].lat /\ poly[4].lng = poly[3].lng

\* x strictly between a and b, in either order
Between(x, a, b) == FCmp(a, x) * FCmp(x, b) > 0

StrictlyInside(pt, poly) ==
    /\ Between(pt.lat, poly[1].lat, poly[3].lat)
    /\ Between(pt.lng, poly[1].lng, poly[3].lng)

\* x beyond both a and b on the same side
Beyond(x, a, b) == FCmp(x, a) * FCmp(x, b) > 0

StrictlyOutsideBox(pt, poly) ==
    \/ Beyond(pt.lat, poly[1].lat, poly[3].lat)
    \/ Beyond(pt.lng, poly[1].lng, poly[3].lng)

\* C7: for an axis-aligned rectangle the result is true for a point strictly
\* inside it and false for a point strictly outside its bounding box.
RectangleContainment ==
    (pc = "returned" /\ IsRectangle(polygon)) =>
        /\ StrictlyInside(point, polygon) => inside = Return(TRUE)
        /\ StrictlyOutsideBox(point, polygon) => inside = Return(FALSE)

RectangleWitness ==
    /\ pc = "returned"
    /\ IsRectangle(polygon)
    /\ StrictlyInside(point, polygon)
    /\ inside = Return(TRUE)

\* C8: the division is evaluated only on edges with yi # yj, the call raises
\* nothing and returns a boolean, and so find_neighborhood raises nothing.
NoDivisionByZero ==
    /\ pc = "returned" =>
          /\ inside.exc = "" /\ inside.val \in BOOLEAN
          /\ \A i \in 1..Len(polygon) :
                intersect(point, polygon[i], polygon[Before(polygon, i)]).exc = ""
    /\ pc = "looked up" => found.exc = "" /\ found.val \in {"A", None}

\* a polygon with a horizontal edge and a repeated vertex, one of its
\* vertices at the point's latitude
FlatEdgeWitness ==
    /\ pc = "returned"
    /\ Len(polygon) >= 3
    /\ \E i \in 1..Len(polygon) :
          /\ polygon[i] # polygon[Before(polygon, i)]
          /\ polygon[i].lat = polygon[Before(polygon, i)].lat
          /\ polygon[i].lat = point.lat
    /\ \E i \in 1..Len(polygon) : polygon[i] = polygon[Before(polygon, i)]
    /\ \E i \in 1..Len(polygon) : Straddles(point, polygon, i)
    /\ inside.exc = ""

----------------------------------------------------------------------------
(* The claims about the lookup, under SpecLookup, and about the Coordinate *)
(* constructor, under SpecConstruct.                                       *)

\* the indices of the neighbourhoods whose polygon contains the point
Matches(pt, nbs) ==
    {k \in 1..Len(nbs) : is_point_in_polygon(pt, nbs[k].coordinates) = Return(TRUE)}

Lowest(S) == CHOOSE k \in S : \A l \in S : k <= l

\* the names at the indices S of nbs, in the order of nbs
RECURSIVE NamesAt(_, _, _)
NamesAt(nbs, S, k) ==
    IF k > Len(nbs) THEN << >>
    ELSE (IF k \in S THEN <<nbs[k].name>> ELSE << >>) \o NamesAt(nbs, S, k + 1)

\* C2: find_neighborhood returns the name of the lowest-index neighbourhood
\* that contains the point, and None exactly when none does.
FirstMatchWins ==
    (pc = "looked up" /\ op = "find_neighborhood") =>
        LET M == Matches(point, neighborhoods)
        IN  found = IF M = {} THEN Return(None)
                    ELSE Return(neighborhoods[Lowest(M)].name)

\* a point inside two neighbourhoods of different names
FirstMatchWitness ==
    /\ pc = "looked up"
    /\ op = "find_neighborhood"
    /\ Matches(point, neighborhoods) = {1, 2}
    /\ neighborhoods[1].name # neighborhoods[2].name
    /\ found = Return(neighborhoods[1].name)

\* C3: a caller can invoke find_all_neighborhoods, and it returns the names
\* of every neighbourhood that contains the point, in the order of the list.
FindAllReturnsEveryMatch ==
    (pc = "looked up" /\ op = "find_all_neighborhoods") =>
        found = Return(NamesAt(neighborhoods, Matches(point, neighborhoods), 1))

\* C9: constructing a Coordinate from a value that is not a number raises
\* InvalidCoordinate, so no such Coordinate reaches is_point_in_polygon or
\* find_neighborhood.
InvalidCoordinateRejected ==
    /\ (last.op = "Coordinate" /\ ~(IsFloat(args[1]) /\ IsFloat(args[2]))) =>
          last.exc = "InvalidCoordinate"
    /\ last.op \in {"is_point_in_polygon", "find_neighborhood"} =>
          IsFloat(point.lat) /\ IsFloat(point.lng)

----------------------------------------------------------------------------
(* The claim about the store, under SpecStore.                             *)

StoredRingsClosed ==
    \A k \in 1..Len(file.neighborhoods) :
        LET c == file.neighborhoods[k].coordinates
        IN  Len(c) >= 3 /\ c[1] = c[Len(c)]

\* the list without its k-th element (1-based), the others in their order
Without(list, k) == [i \in 1..(Len(list) - 1) |-> IF i < k THEN list[i] ELSE list[i + 1]]

\* C10: every stored neighbourhood has at least 3 coordinates, the first
\* equal to the last; a delete removes the chosen record alone and keeps the
\* order of the others, and a choice out of range or not a number leaves the
\* file as it was.
StoreKeepsClosedRings ==
    /\ []StoredRingsClosed
    /\ [][\A choice \in TypedChoices :
             DeleteChoice(choice) =>
                 IF IsInteger(choice) /\ int(choice) \in 1..Len(file.neighborhoods)
                 THEN file'.neighborhoods = Without(file.neighborhoods, int(choice))
                 ELSE file' = file]_vars

\* a delete has left two different records, one of them a ring that create
\* closed by appending its first point
StoreWitness ==
    /\ last.said = "deleted"
    /\ Len(file.neighborhoods) = 2
    /\ file.neighborhoods[1] # file.neighborhoods[2]
    /\ Len(file.neighborhoods[1].coordinates) = MinPoints + 1

====
